---- MODULE Spec2Model ----
(***************************************************************************)
(* Model of the Go backend of luqmanafiq/solana-blockchain:                *)
(*   - the downstream WebSocket server (ConnectedClients, handleConnection,*)
(*     sendMessageToAllClients), one goroutine per step-wise activity;     *)
(*   - the upstream connector (listenToNewPairs, connectAndListen,         *)
(*     listenForMessages).                                                 *)
(* Every goroutine is a process whose position is a variable; an action is *)
(* one atomic step of one goroutine (a call on the concurrent map, a lock, *)
(* a WriteMessage returning, a ReadMessage returning).                     *)
(***************************************************************************)
EXTENDS Integers, Sequences, FiniteSets, TLC

\* ------------------------------------------------------------------ bounds
\* Number of connections the server accepts in a run.
MaxConns == 2
\* Number of distinct remote addresses (registry keys).
MaxAddrs == 2
\* Number of events the decode pipeline hands to the Broadcaster in a run.
MaxBroadcasts == 2
\* Number of inbound frames read over all connections in a run.
MaxFrames == 2
\* Number of external events in a run (connections accepted, frames and read
\* errors returned by ReadMessage, events handed over).
MaxEvents == 3
\* Number of upstream failures (connect, subscribe, receive) in a run.
MaxFailures == 3
\* Number of upstream messages received in a run.
MaxMsgs == 2
\* Number of log lines one upstream message carries.
MaxLines == 2

Conns == 1..MaxConns
Addrs == 1..MaxAddrs
Bcasts == 1..MaxBroadcasts
\* "no client" / "no address" / "no message"
None == 0

\* ------------------------------------------------------- program constants
\* stream.go:26, in seconds
reconnectDelay == 2
\* part_000:89
pingMessage == <<"p", "i", "n", "g">>
\* part_000:92
pongResponse == "{\"message\":\"pong\"}"

\* The serialized wire event (json.Marshal output) of the b-th event handed
\* over: distinct events, distinct bytes.
Marshalled(b) == <<"event", b>>

\* Inbound text frames a client may send, as character sequences.
Frames ==
  { <<"p", "i", "n", "g">>,
    <<"x", "p", "i", "n", "g", "x">>,
    <<"p", "i", "n">>,
    <<"p", "o", "n", "g">> }

\* Mutant of Contains: strings.HasPrefix(s, sub).
ContainsAsPrefix(s, sub) ==
  Len(sub) <= Len(s) /\ SubSeq(s, 1, Len(sub)) = sub

\* strings.Contains(s, sub)
Contains(s, sub) ==
  \E i \in 1..(Len(s) + 1) :
    /\ i + Len(sub) - 1 <= Len(s)
    /\ SubSeq(s, i, i + Len(sub) - 1) = sub

\* ------------------------------------------------- the decode pipeline
\* Text and binary data are sequences of bytes (0..255).

\* stream.go:29, "G3KpTd7r"
logIdentifier == <<71, 51, 75, 112, 84, 100, 55, 114>>
\* stream.go:32, "Program data: "
programDataPrefix ==
  <<80, 114, 111, 103, 114, 97, 109, 32, 100, 97, 116, 97, 58, 32>>
\* stream.go:52
creationDiscriminator == <<27, 114, 169, 77, 222, 235, 99, 118>>

\* s[from:] and s[:to] of Go, on 1-based sequences.
Drop(s, n) == SubSeq(s, n + 1, Len(s))
Take(s, n) == SubSeq(s, 1, n)

\* strings.Index(s, sub) + 1, and 0 when sub does not occur in s.
Index(s, sub) ==
  IF Contains(s, sub)
    THEN CHOOSE i \in 1..(Len(s) + 1) :
           /\ i + Len(sub) - 1 <= Len(s)
           /\ SubSeq(s, i, i + Len(sub) - 1) = sub
           /\ \A j \in 1..(i - 1) : SubSeq(s, j, j + Len(sub) - 1) # sub
    ELSE 0

\* strings.Split(s, sep) for a non-empty sep: the pieces of s between the
\* successive occurrences of sep, found from left to right.
RECURSIVE Split(_, _)
Split(s, sep) ==
  LET i == Index(s, sep) IN
    IF i = 0 THEN <<s>>
    ELSE <<Take(s, i - 1)>> \o Split(Drop(s, i - 1 + Len(sep)), sep)

\* Mutant of extractProgramData: the last piece, whether or not the prefix
\* occurs.
extractProgramDataUnchecked(log) ==
  LET parts == Split(log, programDataPrefix) IN
    [ok |-> TRUE, data |-> parts[Len(parts)]]

\* extractProgramData: parts[1] of the split, an error when there is none.
extractProgramData(log) ==
  LET parts == Split(log, programDataPrefix) IN
    IF Len(parts) < 2 THEN [ok |-> FALSE, data |-> <<>>]
    ELSE [ok |-> TRUE, data |-> parts[2]]

\* The value of a character of the standard base64 alphabet, -1 otherwise.
B64Val(c) ==
  IF c >= 65 /\ c <= 90 THEN c - 65
  ELSE IF c >= 97 /\ c <= 122 THEN c - 71
  ELSE IF c >= 48 /\ c <= 57 THEN c + 4
  ELSE IF c = 43 THEN 62
  ELSE IF c = 47 THEN 63
  ELSE -1

\* The three bytes of a quantum of four 6-bit values.
B64Bytes(a, b, c, d) ==
  <<(a * 4 + b \div 16) % 256, (b * 16 + c \div 4) % 256, (c * 64 + d) % 256>>

\* The quanta of base64.StdEncoding: four characters each; padding "=" only
\* in the last one, as "xx==" (one byte) or "xxx=" (two bytes).
RECURSIVE B64Quanta(_)
B64Quanta(s) ==
  IF s = <<>> THEN [ok |-> TRUE, bytes |-> <<>>]
  ELSE IF Len(s) < 4 THEN [ok |-> FALSE, bytes |-> <<>>]
  ELSE
    LET a == B64Val(s[1])
        b == B64Val(s[2])
        c == B64Val(s[3])
        d == B64Val(s[4])
        last == Len(s) = 4
    IN IF a < 0 \/ b < 0 THEN [ok |-> FALSE, bytes |-> <<>>]
       ELSE IF s[3] = 61 THEN
         IF last /\ s[4] = 61
           THEN [ok |-> TRUE, bytes |-> Take(B64Bytes(a, b, 0, 0), 1)]
           ELSE [ok |-> FALSE, bytes |-> <<>>]
       ELSE IF c < 0 THEN [ok |-> FALSE, bytes |-> <<>>]
       ELSE IF s[4] = 61 THEN
         IF last
           THEN [ok |-> TRUE, bytes |-> Take(B64Bytes(a, b, c, 0), 2)]
           ELSE [ok |-> FALSE, bytes |-> <<>>]
       ELSE IF d < 0 THEN [ok |-> FALSE, bytes |-> <<>>]
       ELSE LET rest == B64Quanta(Drop(s, 4)) IN
              [ok |-> rest.ok,
               bytes |-> IF rest.ok THEN B64Bytes(a, b, c, d) \o rest.bytes
                                    ELSE <<>>]

\* base64.StdEncoding.DecodeString: "\r" and "\n" are skipped, the rest is
\* decoded quantum by quantum.
DecodeString(s) == B64Quanta(SelectSeq(s, LAMBDA c : c # 10 /\ c # 13))

\* Mutant of BytesEqual: only the lengths are compared.
BytesEqualLen(a, b) == Len(a) = Len(b)

\* bytes.Equal(a, b)
BytesEqual(a, b) ==
  /\ Len(a) = Len(b)
  /\ \A i \in 1..Len(a) : a[i] = b[i]

\* bytes.HasPrefix(s, prefix)
HasPrefix(s, prefix) ==
  Len(s) >= Len(prefix) /\ BytesEqual(Take(s, Len(prefix)), prefix)

\* A little-endian 32-bit unsigned integer.
U32(b) == b[1] + 256 * b[2] + 65536 * b[3] + 16777216 * b[4]

\* Borsh string: a 32-bit length, then that many bytes. rest is what
\* follows the string.
ReadString(data) ==
  IF Len(data) < 4 THEN [ok |-> FALSE, val |-> <<>>, rest |-> <<>>]
  ELSE LET n == U32(data) IN
    IF Len(data) - 4 < n THEN [ok |-> FALSE, val |-> <<>>, rest |-> <<>>]
    ELSE [ok |-> TRUE, val |-> SubSeq(data, 5, 4 + n),
          rest |-> Drop(data, 4 + n)]

NoEvent == [Name |-> <<>>, Symbol |-> <<>>, Uri |-> <<>>, Mint |-> <<>>]

\* Mutant of DecodeBorsh: Symbol and Uri are read in the other order.
DecodeBorshSwapped(data) ==
  LET name == ReadString(data)
      uri == ReadString(name.rest)
      symbol == ReadString(uri.rest)
  IN IF name.ok /\ symbol.ok /\ uri.ok /\ Len(symbol.rest) >= 32
       THEN [ok |-> TRUE,
             event |-> [Name |-> name.val, Symbol |-> symbol.val,
                        Uri |-> uri.val, Mint |-> Take(symbol.rest, 32)]]
       ELSE [ok |-> FALSE, event |-> NoEvent]

\* DecodeBorsh into a RawEvent: Name, Symbol and Uri as Borsh strings, Mint
\* as 32 bytes; bytes left over are ignored.
DecodeBorsh(data) ==
  LET name == ReadString(data)
      symbol == ReadString(name.rest)
      uri == ReadString(symbol.rest)
  IN IF name.ok /\ symbol.ok /\ uri.ok /\ Len(uri.rest) >= 32
       THEN [ok |-> TRUE,
             event |-> [Name |-> name.val, Symbol |-> symbol.val,
                        Uri |-> uri.val, Mint |-> Take(uri.rest, 32)]]
       ELSE [ok |-> FALSE, event |-> NoEvent]

\* DecodeBase64[RawEvent](data, discriminator)
DecodeBase64(data, discriminator) ==
  IF Len(data) < Len(discriminator)
    THEN [ok |-> FALSE, event |-> NoEvent]
  ELSE IF ~BytesEqual(Take(data, Len(discriminator)), discriminator)
    THEN [ok |-> FALSE, event |-> NoEvent]
  ELSE DecodeBorsh(Drop(data, Len(discriminator)))

\* The base58 alphabet, "123456789ABC...xyz".
B58Alphabet ==
  <<49, 50, 51, 52, 53, 54, 55, 56, 57, 65, 66, 67, 68, 69, 70, 71, 72, 74,
    75, 76, 77, 78, 80, 81, 82, 83, 84, 85, 86, 87, 88, 89, 90, 97, 98, 99,
    100, 101, 102, 103, 104, 105, 106, 107, 109, 110, 111, 112, 113, 114,
    115, 116, 117, 118, 119, 120, 121, 122>>

\* Long division of the big-endian number n by 58, from digit i on with
\* remainder r so far: the quotient's digits followed by the remainder.
RECURSIVE Div58(_, _, _)
Div58(n, i, r) ==
  IF i > Len(n) THEN <<r>>
  ELSE LET x == r * 256 + n[i] IN <<x \div 58>> \o Div58(n, i + 1, x % 58)

\* The base58 digits of the big-endian number n, most significant first.
RECURSIVE B58Digits(_)
B58Digits(n) ==
  IF \A i \in 1..Len(n) : n[i] = 0 THEN <<>>
  ELSE LET qr == Div58(n, 1, 0) IN
         Append(B58Digits(Take(qr, Len(n))), B58Alphabet[qr[Len(qr)] + 1])

\* The number of zero bytes at the head of n.
RECURSIVE LeadingZeros(_)
LeadingZeros(n) ==
  IF n = <<>> \/ n[1] # 0 THEN 0 ELSE 1 + LeadingZeros(Tail(n))

\* PublicKey.String(): base58, one "1" for each leading zero byte.
Base58(key) ==
  [i \in 1..LeadingZeros(key) |-> 49] \o B58Digits(key)

\* The hexadecimal digit of d, in lower case.
Hex(d) == IF d < 10 THEN 48 + d ELSE 87 + d

\* encoding/json on the bytes of an ASCII string: quote and backslash are
\* escaped with a backslash, "\n", "\r" and "\t" by their letters, the other
\* control characters and "<", ">", "&" as \u00XX.
RECURSIVE JsonEscape(_)
JsonEscape(s) ==
  IF s = <<>> THEN <<>>
  ELSE LET c == s[1] IN
    ( IF c = 34 \/ c = 92 THEN <<92, c>>
      ELSE IF c = 10 THEN <<92, 110>>
      ELSE IF c = 13 THEN <<92, 114>>
      ELSE IF c = 9 THEN <<92, 116>>
      ELSE IF c < 32 \/ c = 60 \/ c = 62 \/ c = 38
        THEN <<92, 117, 48, 48, Hex(c \div 16), Hex(c % 16)>>
      ELSE <<c>> ) \o JsonEscape(Tail(s))

\* json.Marshal(createEvent):
\* {"name":"...","symbol":"...","uri":"...","mint":"..."}
Marshal(e) ==
  <<123, 34, 110, 97, 109, 101, 34, 58, 34>> \o JsonEscape(e.Name)
  \o <<34, 44, 34, 115, 121, 109, 98, 111, 108, 34, 58, 34>>
  \o JsonEscape(e.Symbol)
  \o <<34, 44, 34, 117, 114, 105, 34, 58, 34>> \o JsonEscape(e.Uri)
  \o <<34, 44, 34, 109, 105, 110, 116, 34, 58, 34>> \o JsonEscape(e.Mint)
  \o <<34, 125>>

\* The CreateEvent processLog builds from a RawEvent.
CreateEvent(event) ==
  [Name |-> event.Name, Symbol |-> event.Symbol, Uri |-> event.Uri,
   Mint |-> Base58(event.Mint)]

\* processLog(log): what it returns (err) and the message it starts a
\* broadcast with (send, msg).
Skip == [err |-> "", send |-> FALSE, msg |-> <<>>]
Failed(why) == [err |-> why, send |-> FALSE, msg |-> <<>>]

\* Mutant of processLog: data that is not base64 is skipped without an
\* error.
processLogQuiet(log) ==
  IF ~Contains(log, logIdentifier) THEN Skip
  ELSE LET data == extractProgramData(log) IN
    IF ~data.ok THEN Failed("failed to extract program data")
    ELSE LET decoded == DecodeString(data.data) IN
      IF ~decoded.ok THEN Skip
      ELSE IF ~HasPrefix(decoded.bytes, creationDiscriminator) THEN Skip
      ELSE LET ev == DecodeBase64(decoded.bytes, creationDiscriminator) IN
        IF ~ev.ok THEN Failed("failed to decode event")
        ELSE [err |-> "", send |-> TRUE, msg |-> Marshal(CreateEvent(ev.event))]

processLog(log) ==
  IF ~Contains(log, logIdentifier) THEN Skip
  ELSE LET data == extractProgramData(log) IN
    IF ~data.ok THEN Failed("failed to extract program data")
    ELSE LET decoded == DecodeString(data.data) IN
      IF ~decoded.ok THEN Failed("failed to decode base64 data")
      ELSE IF ~HasPrefix(decoded.bytes, creationDiscriminator) THEN Skip
      ELSE LET ev == DecodeBase64(decoded.bytes, creationDiscriminator) IN
        IF ~ev.ok THEN Failed("failed to decode event")
        ELSE [err |-> "", send |-> TRUE, msg |-> Marshal(CreateEvent(ev.event))]

\* ------------------------------------------------ upstream log lines
\* What the upstream program emits for an event: the Borsh layout of the
\* record after the discriminator, in base64 after "Program data: ".
B64Char(v) ==
  IF v < 26 THEN 65 + v
  ELSE IF v < 52 THEN 71 + v
  ELSE IF v < 62 THEN v - 4
  ELSE IF v = 62 THEN 43
  ELSE 47

RECURSIVE EncodeToString(_)
EncodeToString(b) ==
  IF b = <<>> THEN <<>>
  ELSE IF Len(b) = 1
    THEN <<B64Char(b[1] \div 4), B64Char((b[1] % 4) * 16), 61, 61>>
  ELSE IF Len(b) = 2
    THEN <<B64Char(b[1] \div 4), B64Char((b[1] % 4) * 16 + b[2] \div 16),
           B64Char((b[2] % 16) * 4), 61>>
  ELSE <<B64Char(b[1] \div 4), B64Char((b[1] % 4) * 16 + b[2] \div 16),
         B64Char((b[2] % 16) * 4 + b[3] \div 64), B64Char(b[3] % 64)>>
       \o EncodeToString(Drop(b, 3))

LE32(n) == <<n % 256, (n \div 256) % 256, (n \div 65536) % 256, 0>>

BorshString(t) == LE32(Len(t)) \o t

BorshEncode(e) ==
  BorshString(e.Name) \o BorshString(e.Symbol) \o BorshString(e.Uri) \o e.Mint

\* The events of the runs: "Foo"/"FOO"/"ipfs://x" with the key 0...01, and
\* a"b\ / "" / "<&>" with the key ff...ff.
Events ==
  [event1 |-> [Name |-> <<70, 111, 111>>, Symbol |-> <<70, 79, 79>>,
               Uri |-> <<105, 112, 102, 115, 58, 47, 47, 120>>,
               Mint |-> [i \in 1..32 |-> IF i = 32 THEN 1 ELSE 0]],
   event2 |-> [Name |-> <<97, 34, 98, 92>>, Symbol |-> <<>>,
               Uri |-> <<60, 38, 62>>,
               Mint |-> [i \in 1..32 |-> 255]]]

EventKinds == {"event1", "event2"}

\* A log line is described by what it starts with, the payload it carries
\* after "Program data: " and what follows the payload.
Heads == {"plain", "log", "marked"}
Datas == EventKinds \cup
           {"none", "empty", "other", "junk", "short", "baddisc", "badb64",
            "truncated"}
Tails == {"none", "newline", "again"}

HeadText(h) ==
  IF h = "marked" THEN logIdentifier
  ELSE IF h = "log" THEN <<80, 114, 111, 103, 114, 97, 109, 32, 108, 111, 103,
                           58, 32>>
  ELSE <<>>

\* The bytes an event's payload encodes.
EventBytes(k) == creationDiscriminator \o BorshEncode(Events[k])

Payload(d) ==
  IF d \in EventKinds THEN EncodeToString(EventBytes(d))
  ELSE IF d = "other" THEN EncodeToString(<<1, 2, 3>>)
  ELSE IF d = "junk" THEN <<33, 33>>
  ELSE IF d = "short" THEN EncodeToString(Take(creationDiscriminator, 6))
  ELSE IF d = "baddisc"
    THEN EncodeToString(Take(creationDiscriminator, 6) \o <<0, 0>>
                        \o BorshEncode(Events["event1"]))
  ELSE IF d = "badb64"
    THEN LET t == EncodeToString(EventBytes("event1")) IN Take(t, Len(t) - 1)
  ELSE IF d = "truncated"
    THEN EncodeToString(creationDiscriminator
                        \o Take(BorshEncode(Events["event1"]), 10))
  ELSE <<>>

TailText(t) ==
  IF t = "newline" THEN <<10>>
  ELSE IF t = "again" THEN programDataPrefix \o EncodeToString(<<1, 2, 3>>)
  ELSE <<>>

Text(l) ==
  HeadText(l.head)
  \o (IF l.data = "none" THEN <<>> ELSE programDataPrefix \o Payload(l.data))
  \o TailText(l.tail)

Line(h, d, t) == [head |-> h, data |-> d, tail |-> t]

\* Every line of the description above.
AllLines == {Line(h, d, t) : h \in Heads, d \in Datas, t \in Tails}

\* The lines the upstream messages of a run carry: one without the marker,
\* one with the marker and no prefix, two carrying an event.
StreamLines ==
  {Line("log", "none", "none"), Line("marked", "none", "none"),
   Line("plain", "event1", "none"), Line("log", "event2", "newline")}

\* processLog on each line.
Outcome == [l \in AllLines |-> processLog(Text(l))]

NoLine == Line("plain", "none", "none")

\* ------------------------------------------------------------------- state
VARIABLES
  registry,    \* ConnectedClients: address -> Client (None when absent)
  regVer,      \* number of Store/Delete calls made on ConnectedClients so far
  nconn,       \* number of connections accepted so far
  hpc,         \* position of each connection's handler goroutine
  addr,        \* conn.RemoteAddr() of each accepted connection
  mutex,       \* Client.Mutex: TRUE when locked
  stalled,     \* the peer stopped draining: a write on the connection blocks
  nframes,     \* frames read so far, over all connections
  inbox,       \* history: the frames each connection's loop has read
  pongWait,    \* pong goroutines of a client blocked in Mutex.Lock
  pongWrite,   \* pong goroutines of a client inside WriteMessage
  pongFail,    \* pong writes of a client that returned an error (logged)
  nev,         \* number of external events so far
  nb,          \* number of broadcasts invoked so far
  bpc,         \* position of each sendMessageToAllClients goroutine
  bmsg,        \* its message argument
  bseen,       \* keys its Range call has visited
  allClients,  \* its allClients slice
  bstart,      \* history: handler positions and registry when it was invoked
  bend,        \* history: regVer when its Range call returned
  dtask,       \* position of the delivery goroutine of (broadcast, client)
  received,    \* what has been written on each connection, in order
  upc,         \* position of the listenToNewPairs goroutine
  attempts,    \* number of ws.Connect calls made so far
  fails,       \* history: the phase of each failure so far, in order
  sleepLog,    \* history: the duration of each time.Sleep call so far
  nOpen,       \* upstream sockets open (connected and not yet closed)
  nMsgs,       \* upstream messages received so far
  lines,       \* log lines of the current message not yet processed
  lineErrors,  \* number of processLog calls that returned an error (logged)
  lastLine     \* history: the line processLog was last called on, the error
               \* it returned, the number of the broadcast it started (or 0)

regV == <<registry, regVer>>
connV == <<nconn, hpc, addr>>
frameV == <<nframes, inbox>>
pongV == <<pongWait, pongWrite, pongFail>>
bcastV == <<nb, bpc, bmsg, bseen, allClients, bstart, bend>>

srvV == <<regV, connV, mutex, stalled, frameV, pongV, nev, bcastV, dtask,
          received>>
upV == <<upc, attempts, fails, sleepLog, nOpen, nMsgs, lines, lineErrors,
         lastLine>>

vars == <<srvV, upV>>

\* ------------------------------------------------------------------- Init
NoStart == [hpc |-> [c \in Conns |-> "new"],
            registry |-> [a \in Addrs |-> None],
            ver |-> 0]

\* The server before any connection and any broadcast.
InitServer ==
  /\ registry = [a \in Addrs |-> None]
  /\ regVer = 0
  /\ nconn = 0
  /\ hpc = [c \in Conns |-> "new"]
  /\ addr = [c \in Conns |-> None]
  /\ mutex = [c \in Conns |-> FALSE]
  /\ stalled = [c \in Conns |-> FALSE]
  /\ nframes = 0
  /\ inbox = [c \in Conns |-> <<>>]
  /\ pongWait = [c \in Conns |-> 0]
  /\ pongWrite = [c \in Conns |-> 0]
  /\ pongFail = [c \in Conns |-> 0]
  /\ nev = 0
  /\ nb = 0
  /\ bpc = [b \in Bcasts |-> "idle"]
  /\ bmsg = [b \in Bcasts |-> <<>>]
  /\ bseen = [b \in Bcasts |-> {}]
  /\ allClients = [b \in Bcasts |-> <<>>]
  /\ bstart = [b \in Bcasts |-> NoStart]
  /\ bend = [b \in Bcasts |-> 0]
  /\ dtask = [b \in Bcasts |-> [c \in Conns |-> "none"]]
  /\ received = [c \in Conns |-> <<>>]

Init ==
  /\ upc = "loop"
  /\ attempts = 0
  /\ fails = <<>>
  /\ sleepLog = <<>>
  /\ nOpen = 0
  /\ nMsgs = 0
  /\ lines = <<>>
  /\ lineErrors = 0
  /\ lastLine = [line |-> NoLine, err |-> "", sent |-> 0]
  /\ InitServer

\* ---------------------------------------------------------------- helpers
\* c.Connection.WriteMessage(websocket.TextMessage, bytes) returning nil:
\* the bytes are on the wire of c, after everything written before.
\* src records which activity wrote them (a broadcast number, or None for
\* a pong reply).
WriteMessage(c, src, bytes) ==
  [received EXCEPT ![c] = Append(@, [src |-> src, bytes |-> bytes])]

\* The activities inside WriteMessage on the connection of client c.
Writers(c) ==
  Cardinality({b \in Bcasts : dtask[b][c] = "write"}) + pongWrite[c]

\* Mutant of LockFree: one lock shared by all clients.
LockFreeGlobal(c) == \A x \in Conns : ~mutex[x]

\* Whether c.Mutex.Lock() can return: the client's own mutex is unlocked.
LockFree(c) == ~mutex[c]

\* Whether a WriteMessage on c can return, and whether it can return nil:
\* it blocks while the peer is stalled and the connection is open; on a
\* connection closed by conn.Close() it returns an error.
CanReturn(c, ok) ==
  /\ (stalled[c] => hpc[c] = "closed")
  /\ (ok => hpc[c] # "closed")

\* The clients a slice holds.
Elems(s) == {s[i] : i \in 1..Len(s)}

\* ---------------------------------------------------------------- actions
\* HandleWebSocket: Upgrade succeeds; handleConnection builds the Client and
\* stores it under the remote address, replacing whatever was there.
Connect(a) ==
  /\ nconn < MaxConns
  /\ nev < MaxEvents
  /\ nev' = nev + 1
  /\ LET c == nconn + 1 IN
       /\ nconn' = c
       /\ hpc' = [hpc EXCEPT ![c] = "reading"]
       /\ addr' = [addr EXCEPT ![c] = a]
       /\ registry' = [registry EXCEPT ![a] = c]
  /\ regVer' = regVer + 1
  /\ UNCHANGED <<mutex, stalled, frameV, pongV, bcastV, dtask, received>>

\* Mutant of ReadFrame: the read loop writes the pong itself, and reads the
\* next frame when that write has returned.
ReadFrameInline(c, f) ==
  /\ hpc[c] = "reading"
  /\ pongWait[c] + pongWrite[c] = 0
  /\ nframes < MaxFrames
  /\ nev < MaxEvents
  /\ nev' = nev + 1
  /\ nframes' = nframes + 1
  /\ inbox' = [inbox EXCEPT ![c] = Append(@, f)]
  /\ pongWait' = IF Contains(f, pingMessage)
                   THEN [pongWait EXCEPT ![c] = @ + 1]
                   ELSE pongWait
  /\ UNCHANGED <<regV, connV, mutex, stalled, pongWrite, pongFail, bcastV,
                 dtask, received>>

\* conn.ReadMessage() returns a frame; a pong goroutine is started when the
\* text contains "ping", and nothing else happens otherwise.
ReadFrame(c, f) ==
  /\ hpc[c] = "reading"
  /\ nframes < MaxFrames
  /\ nev < MaxEvents
  /\ nev' = nev + 1
  /\ nframes' = nframes + 1
  /\ inbox' = [inbox EXCEPT ![c] = Append(@, f)]
  /\ pongWait' = IF Contains(f, pingMessage)
                   THEN [pongWait EXCEPT ![c] = @ + 1]
                   ELSE pongWait
  /\ UNCHANGED <<regV, connV, mutex, stalled, pongWrite, pongFail, bcastV,
                 dtask, received>>

\* conn.ReadMessage() returns an error: the loop breaks.
ReadError(c) ==
  /\ hpc[c] = "reading"
  /\ nev < MaxEvents
  /\ nev' = nev + 1
  /\ hpc' = [hpc EXCEPT ![c] = "exited"]
  /\ UNCHANGED <<regV, nconn, addr, mutex, stalled, frameV, pongV, bcastV,
                 dtask, received>>

\* Mutant of Delete: the handler returns without removing its entry.
DeleteKeep(c) ==
  /\ hpc[c] = "exited"
  /\ hpc' = [hpc EXCEPT ![c] = "removed"]
  /\ UNCHANGED <<regV, nconn, addr, mutex, stalled, frameV, pongV, nev, bcastV,
                 dtask, received>>

\* ConnectedClients.Delete(address): removes the entry of the address,
\* whichever Client it maps to.
Delete(c) ==
  /\ hpc[c] = "exited"
  /\ hpc' = [hpc EXCEPT ![c] = "removed"]
  /\ registry' = [registry EXCEPT ![addr[c]] = None]
  /\ regVer' = regVer + 1
  /\ UNCHANGED <<nconn, addr, mutex, stalled, frameV, pongV, nev, bcastV,
                 dtask, received>>

\* handleConnection returned: the deferred conn.Close() of HandleWebSocket.
Close(c) ==
  /\ hpc[c] = "removed"
  /\ hpc' = [hpc EXCEPT ![c] = "closed"]
  /\ UNCHANGED <<regV, nconn, addr, mutex, stalled, frameV, pongV, nev, bcastV,
                 dtask, received>>

\* The peer of an open connection stops draining while a write is under
\* way: the write does not return (until the connection is closed).
Stall(c) ==
  /\ hpc[c] # "closed"
  /\ Writers(c) > 0
  /\ ~stalled[c]
  /\ stalled' = [stalled EXCEPT ![c] = TRUE]
  /\ UNCHANGED <<regV, connV, mutex, frameV, pongV, nev, bcastV, dtask,
                 received>>

\* processLog: go sendMessageToAllClients(marshalled). Broadcasts are
\* numbered in the order processLog starts them.
StartBroadcast ==
  /\ nb < MaxBroadcasts
  /\ nev < MaxEvents
  /\ nev' = nev + 1
  /\ LET b == nb + 1 IN
       /\ nb' = b
       /\ bpc' = [bpc EXCEPT ![b] = "ranging"]
       /\ bmsg' = [bmsg EXCEPT ![b] = Marshalled(b)]
       /\ bstart' = [bstart EXCEPT ![b] =
                       [hpc |-> hpc, registry |-> registry, ver |-> regVer]]
  /\ UNCHANGED <<regV, connV, mutex, stalled, frameV, pongV, bseen, allClients,
                 bend, dtask, received>>

\* Mutant of RangeStep: the Range callback returns false after the first
\* client, which ends the iteration.
RangeStepStop(b, a) ==
  /\ bpc[b] = "ranging"
  /\ a \notin bseen[b]
  /\ \A x \in Addrs : x < a => x \in bseen[b]
  /\ bseen' = [bseen EXCEPT ![b] = IF registry[a] # None THEN Addrs
                                                         ELSE @ \cup {a}]
  /\ allClients' = IF registry[a] # None
                     THEN [allClients EXCEPT ![b] = Append(@, registry[a])]
                     ELSE allClients
  /\ UNCHANGED <<regV, connV, mutex, stalled, frameV, pongV, nev, nb, bpc, bmsg,
                 bstart, bend, dtask, received>>

\* ConnectedClients.Range visits one more key, seeing the entry the key has
\* at that moment: each key once, in the order of the map's table, which
\* is the order the addresses are numbered in.
RangeStep(b, a) ==
  /\ bpc[b] = "ranging"
  /\ a \notin bseen[b]
  /\ \A x \in Addrs : x < a => x \in bseen[b]
  /\ bseen' = [bseen EXCEPT ![b] = @ \cup {a}]
  /\ allClients' = IF registry[a] # None
                     THEN [allClients EXCEPT ![b] = Append(@, registry[a])]
                     ELSE allClients
  /\ UNCHANGED <<regV, connV, mutex, stalled, frameV, pongV, nev, nb, bpc, bmsg,
                 bstart, bend, dtask, received>>

\* Mutant of Spawn: the loop ranges over ConnectedClients as it is now, not
\* over the clients collected.
SpawnCurrent(b) ==
  /\ bpc[b] = "ranging"
  /\ bseen[b] = Addrs
  /\ bpc' = [bpc EXCEPT ![b] = "spawned"]
  /\ bend' = [bend EXCEPT ![b] = regVer]
  /\ dtask' = [dtask EXCEPT ![b] =
                 [c \in Conns |->
                    IF \E a \in Addrs : registry[a] = c THEN "wait"
                                                        ELSE "none"]]
  /\ UNCHANGED <<regV, connV, mutex, stalled, frameV, pongV, nev, nb, bmsg,
                 bseen, allClients, bstart, received>>

\* Range returned; the loop starts one delivery goroutine per collected
\* client and sendMessageToAllClients returns.
Spawn(b) ==
  /\ bpc[b] = "ranging"
  /\ bseen[b] = Addrs
  /\ bpc' = [bpc EXCEPT ![b] = "spawned"]
  /\ bend' = [bend EXCEPT ![b] = regVer]
  /\ dtask' = [dtask EXCEPT ![b] =
                 [c \in Conns |->
                    IF c \in Elems(allClients[b]) THEN "wait" ELSE "none"]]
  /\ UNCHANGED <<regV, connV, mutex, stalled, frameV, pongV, nev, nb, bmsg,
                 bseen, allClients, bstart, received>>

\* Mutant of Lock: the delivery goroutine writes without taking the lock.
LockNoMutex(b, c) ==
  /\ dtask[b][c] = "wait"
  /\ mutex' = [mutex EXCEPT ![c] = TRUE]
  /\ dtask' = [dtask EXCEPT ![b][c] = "write"]
  /\ UNCHANGED <<regV, connV, stalled, frameV, pongV, nev, bcastV, received>>

\* Delivery goroutine: c.Mutex.Lock() returns, WriteMessage begins.
Lock(b, c) ==
  /\ dtask[b][c] = "wait"
  /\ LockFree(c)
  /\ mutex' = [mutex EXCEPT ![c] = TRUE]
  /\ dtask' = [dtask EXCEPT ![b][c] = "write"]
  /\ UNCHANGED <<regV, connV, stalled, frameV, pongV, nev, bcastV, received>>

\* Mutant of WriteReturn: a failed write evicts the client from the registry.
WriteReturnEvict(b, c, ok) ==
  /\ dtask[b][c] = "write"
  /\ CanReturn(c, ok)
  /\ received' = IF ok THEN WriteMessage(c, b, bmsg[b]) ELSE received
  /\ dtask' = [dtask EXCEPT ![b][c] = IF ok THEN "ok" ELSE "fail"]
  /\ mutex' = [mutex EXCEPT ![c] = FALSE]
  /\ registry' = IF ok THEN registry ELSE [registry EXCEPT ![addr[c]] = None]
  /\ UNCHANGED <<regVer, connV, stalled, frameV, pongV, nev, bcastV>>

\* Mutant of WriteReturn: Unlock is not deferred, and the return after a
\* failed write skips it.
WriteReturnKeepLock(b, c, ok) ==
  /\ dtask[b][c] = "write"
  /\ CanReturn(c, ok)
  /\ received' = IF ok THEN WriteMessage(c, b, bmsg[b]) ELSE received
  /\ dtask' = [dtask EXCEPT ![b][c] = IF ok THEN "ok" ELSE "fail"]
  /\ mutex' = [mutex EXCEPT ![c] = ~ok]
  /\ UNCHANGED <<regV, connV, stalled, frameV, pongV, nev, bcastV>>

\* Delivery goroutine: WriteMessage returns (nil, or an error that is
\* logged), then the deferred Unlock runs.
WriteReturn(b, c, ok) ==
  /\ dtask[b][c] = "write"
  /\ CanReturn(c, ok)
  /\ received' = IF ok THEN WriteMessage(c, b, bmsg[b]) ELSE received
  /\ dtask' = [dtask EXCEPT ![b][c] = IF ok THEN "ok" ELSE "fail"]
  /\ mutex' = [mutex EXCEPT ![c] = FALSE]
  /\ UNCHANGED <<regV, connV, stalled, frameV, pongV, nev, bcastV>>

\* Pong goroutine: client.Mutex.Lock() returns, WriteMessage begins.
PongLock(c) ==
  /\ pongWait[c] > 0
  /\ LockFree(c)
  /\ mutex' = [mutex EXCEPT ![c] = TRUE]
  /\ pongWait' = [pongWait EXCEPT ![c] = @ - 1]
  /\ pongWrite' = [pongWrite EXCEPT ![c] = @ + 1]
  /\ UNCHANGED <<regV, connV, stalled, frameV, pongFail, nev, bcastV, dtask,
                 received>>

\* Pong goroutine: WriteMessage of the pong literal returns, then Unlock.
PongReturn(c, ok) ==
  /\ pongWrite[c] > 0
  /\ CanReturn(c, ok)
  /\ received' = IF ok THEN WriteMessage(c, None, pongResponse) ELSE received
  /\ pongWrite' = [pongWrite EXCEPT ![c] = @ - 1]
  /\ pongFail' = IF ok THEN pongFail ELSE [pongFail EXCEPT ![c] = @ + 1]
  /\ mutex' = [mutex EXCEPT ![c] = FALSE]
  /\ UNCHANGED <<regV, connV, stalled, frameV, pongWait, nev, bcastV, dtask>>

\* ------------------------------------------------------- upstream connector
\* Mutant of Fail: connectAndListen returns without closing its socket.
FailNoClose(phase) ==
  /\ Len(fails) < MaxFailures
  /\ fails' = Append(fails, phase)
  /\ nOpen' = nOpen
  /\ upc' = "failed"

\* A phase of connectAndListen returned an error: the deferred socket.Close()
\* runs when a socket was open, the error reaches listenToNewPairs.
Fail(phase) ==
  /\ Len(fails) < MaxFailures
  /\ fails' = Append(fails, phase)
  /\ nOpen' = IF phase = "connect" THEN nOpen ELSE nOpen - 1
  /\ upc' = "failed"

\* listenToNewPairs: the loop calls connectAndListen, which calls ws.Connect.
BeginConnect ==
  /\ upc = "loop"
  /\ upc' = "connecting"
  /\ attempts' = attempts + 1
  /\ UNCHANGED <<fails, sleepLog, nOpen, nMsgs, lines, lineErrors, lastLine>>

\* ws.Connect returned a socket.
ConnectOk ==
  /\ upc = "connecting"
  /\ upc' = "subscribing"
  /\ nOpen' = nOpen + 1
  /\ UNCHANGED <<attempts, fails, sleepLog, nMsgs, lines, lineErrors, lastLine>>

\* ws.Connect returned an error.
ConnectFail ==
  /\ upc = "connecting"
  /\ Fail("connect")
  /\ UNCHANGED <<attempts, sleepLog, nMsgs, lines, lineErrors, lastLine>>

\* socket.LogsSubscribeMentions returned a subscription.
SubscribeOk ==
  /\ upc = "subscribing"
  /\ upc' = "receiving"
  /\ UNCHANGED <<attempts, fails, sleepLog, nOpen, nMsgs, lines, lineErrors,
                 lastLine>>

\* socket.LogsSubscribeMentions returned an error.
SubscribeFail ==
  /\ upc = "subscribing"
  /\ Fail("subscribe")
  /\ UNCHANGED <<attempts, sleepLog, nMsgs, lines, lineErrors, lastLine>>

\* The sequences of log lines a message may carry.
LineSeqs == UNION {[1..n -> StreamLines] : n \in 0..MaxLines}

\* The lines of ls for which processLog starts a broadcast.
Sends(ls) == {i \in 1..Len(ls) : Outcome[ls[i]].send}

\* sub.Recv returned a message with the log lines ls.
RecvMsg(ls) ==
  /\ upc = "receiving"
  /\ nMsgs < MaxMsgs
  /\ nb + Cardinality(Sends(ls)) <= MaxBroadcasts
  /\ nMsgs' = nMsgs + 1
  /\ lines' = ls
  /\ upc' = IF ls = <<>> THEN "receiving" ELSE "processing"
  /\ UNCHANGED <<attempts, fails, sleepLog, nOpen, lineErrors, lastLine>>

\* sub.Recv returned an error.
RecvFail ==
  /\ upc = "receiving"
  /\ Fail("receive")
  /\ UNCHANGED <<attempts, sleepLog, nMsgs, lines, lineErrors, lastLine>>

\* processLog: go sendMessageToAllClients(msg). The goroutine is started
\* and processLog returns.
HandOff(msg) ==
  LET b == nb + 1 IN
    /\ nb' = b
    /\ bpc' = [bpc EXCEPT ![b] = "ranging"]
    /\ bmsg' = [bmsg EXCEPT ![b] = msg]
    /\ bstart' = [bstart EXCEPT ![b] =
                    [hpc |-> hpc, registry |-> registry, ver |-> regVer]]
    /\ UNCHANGED <<regV, connV, mutex, stalled, frameV, pongV, nev, bseen,
                   allClients, bend, dtask, received>>

\* Mutant of ProcessLine: an error of processLog is returned to
\* connectAndListen, as an error of sub.Recv is.
ProcessLineAbort ==
  /\ upc = "processing"
  /\ LET l == Head(lines)
         r == Outcome[l]
     IN /\ lineErrors' = IF r.err # "" THEN lineErrors + 1 ELSE lineErrors
        /\ lastLine' = [line |-> l, err |-> r.err,
                        sent |-> IF r.send THEN nb + 1 ELSE 0]
        /\ IF r.send THEN HandOff(r.msg) ELSE UNCHANGED srvV
        /\ IF r.err # ""
             THEN /\ Fail("receive")
                  /\ lines' = <<>>
             ELSE /\ lines' = Tail(lines)
                  /\ upc' = IF Len(lines) = 1 THEN "receiving"
                                              ELSE "processing"
                  /\ UNCHANGED <<fails, nOpen>>
  /\ UNCHANGED <<attempts, sleepLog, nMsgs>>

\* Mutant of ProcessLine: processLog is not called before the broadcasts
\* started so far have delivered to all their clients.
ProcessLineSync ==
  /\ upc = "processing"
  /\ \A b \in Bcasts :
       /\ bpc[b] # "ranging"
       /\ \A c \in Conns : dtask[b][c] \notin {"wait", "write"}
  /\ LET l == Head(lines)
         r == Outcome[l]
     IN /\ lines' = Tail(lines)
        /\ lineErrors' = IF r.err # "" THEN lineErrors + 1 ELSE lineErrors
        /\ lastLine' = [line |-> l, err |-> r.err,
                        sent |-> IF r.send THEN nb + 1 ELSE 0]
        /\ IF r.send THEN HandOff(r.msg) ELSE UNCHANGED srvV
  /\ upc' = IF Len(lines) = 1 THEN "receiving" ELSE "processing"
  /\ UNCHANGED <<attempts, fails, sleepLog, nOpen, nMsgs>>

\* listenForMessages: processLog(log) is called on the next line of the
\* message and returns; an error is printed and the loop goes on.
ProcessLine ==
  /\ upc = "processing"
  /\ LET l == Head(lines)
         r == Outcome[l]
     IN /\ lines' = Tail(lines)
        /\ lineErrors' = IF r.err # "" THEN lineErrors + 1 ELSE lineErrors
        /\ lastLine' = [line |-> l, err |-> r.err,
                        sent |-> IF r.send THEN nb + 1 ELSE 0]
        /\ IF r.send THEN HandOff(r.msg) ELSE UNCHANGED srvV
  /\ upc' = IF Len(lines) = 1 THEN "receiving" ELSE "processing"
  /\ UNCHANGED <<attempts, fails, sleepLog, nOpen, nMsgs>>

\* Mutant of BeginSleep: the wait grows with the number of failures.
BeginSleepBackoff ==
  /\ upc = "failed"
  /\ upc' = "sleeping"
  /\ sleepLog' = Append(sleepLog, reconnectDelay * Len(fails))
  /\ UNCHANGED <<attempts, fails, nOpen, nMsgs, lines, lineErrors, lastLine>>

\* listenToNewPairs: connectAndListen returned an error; it is printed and
\* time.Sleep(reconnectDelay) is called.
BeginSleep ==
  /\ upc = "failed"
  /\ upc' = "sleeping"
  /\ sleepLog' = Append(sleepLog, reconnectDelay)
  /\ UNCHANGED <<attempts, fails, nOpen, nMsgs, lines, lineErrors, lastLine>>

\* Mutant of EndSleep: the connector gives up after the wait.
EndSleepGiveUp ==
  /\ upc = "sleeping"
  /\ upc' = "stopped"
  /\ UNCHANGED <<attempts, fails, sleepLog, nOpen, nMsgs, lines, lineErrors,
                 lastLine>>

\* time.Sleep returned: the loop goes round.
EndSleep ==
  /\ upc = "sleeping"
  /\ upc' = "loop"
  /\ UNCHANGED <<attempts, fails, sleepLog, nOpen, nMsgs, lines, lineErrors,
                 lastLine>>

\* ------------------------------------------------------------------- Next
\* The connector alone.
UpstreamNext ==
  \/ BeginConnect /\ UNCHANGED srvV
  \/ ConnectOk /\ UNCHANGED srvV
  \/ ConnectFail /\ UNCHANGED srvV
  \/ SubscribeOk /\ UNCHANGED srvV
  \/ SubscribeFail /\ UNCHANGED srvV
  \/ \E ls \in LineSeqs : RecvMsg(ls) /\ UNCHANGED srvV
  \/ RecvFail /\ UNCHANGED srvV
  \/ ProcessLine
  \/ BeginSleep /\ UNCHANGED srvV
  \/ EndSleep /\ UNCHANGED srvV

SpecUpstream == Init /\ [][UpstreamNext]_vars

\* The steps listenToNewPairs takes by itself; a network call (Connect,
\* Subscribe, Recv) returns when the network lets it.
ConnectorStep == BeginConnect \/ BeginSleep \/ EndSleep

FairUpstream ==
  /\ SpecUpstream
  /\ WF_vars(ConnectorStep /\ UNCHANGED srvV)
  /\ WF_vars(ProcessLine)

\* processLog alone: the connector has just received a message with one
\* line, any of AllLines, and processes it.
InitDecode ==
  /\ upc = "processing"
  /\ attempts = 1
  /\ fails = <<>>
  /\ sleepLog = <<>>
  /\ nOpen = 1
  /\ nMsgs = 1
  /\ \E l \in AllLines : lines = <<l>>
  /\ lineErrors = 0
  /\ lastLine = [line |-> NoLine, err |-> "", sent |-> 0]
  /\ InitServer

DecodeNext == ProcessLine

SpecDecode == InitDecode /\ [][DecodeNext]_vars

\* The server alone.
Next ==
  \/ \E a \in Addrs : Connect(a) /\ UNCHANGED upV
  \/ \E c \in Conns, f \in Frames : ReadFrame(c, f) /\ UNCHANGED upV
  \/ \E c \in Conns : ReadError(c) /\ UNCHANGED upV
  \/ \E c \in Conns : Delete(c) /\ UNCHANGED upV
  \/ \E c \in Conns : Close(c) /\ UNCHANGED upV
  \/ \E c \in Conns : Stall(c) /\ UNCHANGED upV
  \/ StartBroadcast /\ UNCHANGED upV
  \/ \E b \in Bcasts, a \in Addrs : RangeStep(b, a) /\ UNCHANGED upV
  \/ \E b \in Bcasts : Spawn(b) /\ UNCHANGED upV
  \/ \E b \in Bcasts, c \in Conns : Lock(b, c) /\ UNCHANGED upV
  \/ \E b \in Bcasts, c \in Conns, ok \in BOOLEAN :
       WriteReturn(b, c, ok) /\ UNCHANGED upV
  \/ \E c \in Conns : PongLock(c) /\ UNCHANGED upV
  \/ \E c \in Conns, ok \in BOOLEAN : PongReturn(c, ok) /\ UNCHANGED upV

Spec == Init /\ [][Next]_vars

\* The steps of one goroutine of each kind. The Go scheduler runs every
\* runnable goroutine eventually; what the environment does (connections,
\* frames, read errors, stalls, upstream events) is under no obligation.
HandlerStep(c) == Delete(c) \/ Close(c)
BroadcastStep(b) == (\E a \in Addrs : RangeStep(b, a)) \/ Spawn(b)
DeliveryStep(b, c) == Lock(b, c) \/ \E ok \in BOOLEAN : WriteReturn(b, c, ok)
PongStep(c) == PongLock(c) \/ \E ok \in BOOLEAN : PongReturn(c, ok)

Fairness ==
  /\ \A c \in Conns : WF_vars(HandlerStep(c) /\ UNCHANGED upV)
  /\ \A b \in Bcasts : WF_vars(BroadcastStep(b) /\ UNCHANGED upV)
  /\ \A b \in Bcasts : \A c \in Conns :
       WF_vars(DeliveryStep(b, c) /\ UNCHANGED upV)
  /\ \A c \in Conns : WF_vars(PongStep(c) /\ UNCHANGED upV)

FairSpec == Spec /\ Fairness

\* The connector and the server together: a run has MaxEvents external
\* events, those of the upstream (a message, a failure) among them.
UpstreamEvent ==
  /\ nev < MaxEvents
  /\ nev' = nev + 1
  /\ UNCHANGED <<regV, connV, mutex, stalled, frameV, pongV, bcastV, dtask,
                 received>>

RelayNext ==
  \/ BeginConnect /\ UNCHANGED srvV
  \/ ConnectOk /\ UNCHANGED srvV
  \/ ConnectFail /\ UpstreamEvent
  \/ SubscribeOk /\ UNCHANGED srvV
  \/ SubscribeFail /\ UpstreamEvent
  \/ \E ls \in LineSeqs : RecvMsg(ls) /\ UpstreamEvent
  \/ RecvFail /\ UpstreamEvent
  \/ ProcessLine
  \/ BeginSleep /\ UNCHANGED srvV
  \/ EndSleep /\ UNCHANGED srvV
  \/ \E a \in Addrs : Connect(a) /\ UNCHANGED upV
  \/ \E c \in Conns : ReadError(c) /\ UNCHANGED upV
  \/ \E c \in Conns : Delete(c) /\ UNCHANGED upV
  \/ \E c \in Conns : Close(c) /\ UNCHANGED upV
  \/ \E c \in Conns : Stall(c) /\ UNCHANGED upV
  \/ \E b \in Bcasts, a \in Addrs : RangeStep(b, a) /\ UNCHANGED upV
  \/ \E b \in Bcasts : Spawn(b) /\ UNCHANGED upV
  \/ \E b \in Bcasts, c \in Conns : Lock(b, c) /\ UNCHANGED upV
  \/ \E b \in Bcasts, c \in Conns, ok \in BOOLEAN :
       WriteReturn(b, c, ok) /\ UNCHANGED upV

SpecRelay == Init /\ [][RelayNext]_vars

\* The connector's own steps are taken; nothing is assumed of the server's
\* goroutines.
FairConnector ==
  /\ SpecRelay
  /\ WF_vars(ConnectorStep /\ UNCHANGED srvV)
  /\ WF_vars(ProcessLine)

\* Every goroutine's steps are taken.
FairRelay == FairConnector /\ Fairness

\* ------------------------------------------------------- claim vocabulary
\* The client of connection c is the registry's entry for c's address.
Registered(c) == addr[c] # None /\ registry[addr[c]] = c

\* Positions in what connection c received that broadcast b wrote.
From(c, src) == {i \in 1..Len(received[c]) : received[c][i].src = src}

\* ---------------------------------------------------------------- claims
\* C1: per-client delivery order. For two events handed to the Broadcaster
\* in the order b1 then b2, a client registered from before b1 until now that
\* received both has b1's message written before b2's.
C1_PerClientOrder ==
  \A c \in Conns : \A b1 \in Bcasts : \A b2 \in Bcasts :
    ( /\ b1 < b2
      /\ hpc[c] = "reading" /\ Registered(c)
      /\ bstart[b1].registry[addr[c]] = c )
    => \A i \in From(c, b1) : \A j \in From(c, b2) : i < j

\* C2: registry presence. A connection that handleConnection registered and
\* whose read loop has not hit a read error is the registry's entry for its
\* address.
C2_RegistryPresence ==
  \A c \in Conns : hpc[c] = "reading" => Registered(c)

\* C3: write mutual exclusion. At most one activity (broadcast delivery or
\* pong reply) is inside WriteMessage on a given client's connection.
C3_WriteMutualExclusion ==
  \A c \in Conns : Writers(c) <= 1

\* C3 witness: a pong reply is inside WriteMessage on a client while a
\* broadcast delivery for the same client waits for the lock.
C3_Witness ==
  \E c \in Conns : \E b \in Bcasts :
    pongWrite[c] = 1 /\ dtask[b][c] = "wait" /\ mutex[c]

\* The clients registered when broadcast b was invoked.
RegAt(b) == {bstart[b].registry[a] : a \in Addrs} \ {None}

\* Broadcast b has collected its clients and started its deliveries, and
\* no Store or Delete on the registry happened in between.
Quiet(b) == bpc[b] = "spawned" /\ bend[b] = bstart[b].ver

C4_FanOutState ==
  \A b \in Bcasts : Quiet(b) =>
    /\ Elems(allClients[b]) = RegAt(b)
    /\ Len(allClients[b]) = Cardinality(RegAt(b))
    /\ \A c \in Conns :
         /\ c \notin RegAt(b) => dtask[b][c] = "none" /\ From(c, b) = {}
         /\ c \in RegAt(b) =>
              /\ dtask[b][c] # "none"
              /\ Cardinality(From(c, b)) = (IF dtask[b][c] = "ok" THEN 1 ELSE 0)
         /\ \A i \in From(c, b) : received[c][i].bytes = Marshalled(b)

\* Every broadcast invoked has started its deliveries, and every delivery
\* of an undisturbed broadcast has returned, but for those whose client's
\* peer is stalled.
C4_FanOutDone ==
  \A b \in Bcasts :
    /\ bpc[b] # "ranging"
    /\ Quiet(b) =>
         \A c \in RegAt(b) : dtask[b][c] \in {"ok", "fail"} \/ stalled[c]

\* C4: broadcast fan-out. With N clients registered and no registration or
\* removal during sendMessageToAllClients(m), the call collects exactly those
\* N clients, once each; no other client gets anything from it; each
\* delivery that has returned without error has put m on its client's
\* connection exactly once, byte for byte; and the deliveries eventually
\* all return, but for those whose client's peer is stalled (again and
\* again there is a moment at which none is left: so each one started
\* leads to its return). With N = 0 nothing is written.
C4_FanOut ==
  /\ []C4_FanOutState
  /\ []<>C4_FanOutDone

\* C4 witness: a broadcast over two registered clients, undisturbed, has
\* delivered to both.
C4_Witness ==
  \E b \in Bcasts :
    /\ Quiet(b)
    /\ Cardinality(RegAt(b)) = 2
    /\ \A c \in RegAt(b) : dtask[b][c] = "ok" /\ Cardinality(From(c, b)) = 1

\* No delivery is waiting or writing, but for those whose own client's
\* peer is stalled.
C5_OnlyOwnStall ==
  \A b \in Bcasts : \A c \in Conns :
    dtask[b][c] \in {"wait", "write"} => stalled[c]

\* C5: delivery isolation. A delivery waits for nothing but its own
\* client's lock: it can take the lock whenever that lock is free, and it
\* eventually returns (written or failed) unless its own client's peer
\* stalls, whatever happens to the writes on other clients (again and again
\* there is a moment at which the only deliveries left are those of stalled
\* clients: so each delivery started leads to its return or to its own
\* client's stall).
C5_DeliveryIsolation ==
  /\ [](\A b \in Bcasts : \A c \in Conns :
          (dtask[b][c] = "wait" /\ ~mutex[c])
            => ENABLED (Lock(b, c) /\ UNCHANGED upV))
  /\ []<>C5_OnlyOwnStall

\* C5 witness: the write to one client of a broadcast is blocked, holding
\* that client's lock, and another client of the same broadcast has
\* received the message.
C5_Witness ==
  \E b \in Bcasts : \E c \in Conns : \E d \in Conns :
    /\ c # d
    /\ dtask[b][c] = "write" /\ stalled[c] /\ hpc[c] # "closed" /\ mutex[c]
    /\ dtask[b][d] = "ok"

\* The phases of the connector's cycle.
Phases == {"loop", "connecting", "subscribing", "receiving", "processing",
           "failed", "sleeping"}

\* C6: reconnection never stops. The connector is always in a phase of its
\* cycle, none of them final; after its k-th failure, whichever phase
\* failed, it eventually starts connect attempt k + 1, for every k.
C6_ReconnectNeverStops ==
  /\ [](upc \in Phases)
  /\ \A k \in 1..MaxFailures :
       (upc = "failed" /\ Len(fails) = k)
         ~> (upc = "connecting" /\ attempts = k + 1)

\* C6 witness: after a connect failure, a subscribe failure and a receive
\* failure the connector is in its fourth connect attempt.
C6_Witness ==
  /\ fails = <<"connect", "subscribe", "receive">>
  /\ upc = "connecting"
  /\ attempts = 4

\* Connect attempts other than the first.
Reconnects == attempts - 1

\* C7: reconnect count and spacing. Every wait is time.Sleep of the constant
\* reconnectDelay; a connect attempt under way is preceded by as many waits
\* as failures, one after each; so an initial connect failure followed by N
\* subscribe or stream failures has produced exactly N + 1 reconnect
\* attempts once the last one is under way.
C7_ReconnectCount ==
  /\ \A i \in 1..Len(sleepLog) : sleepLog[i] = reconnectDelay
  /\ upc = "loop" => attempts = Len(fails) /\ Len(sleepLog) = Len(fails)
  /\ upc \in {"connecting", "subscribing", "receiving", "processing"} =>
       /\ Reconnects = Len(fails)
       /\ Len(sleepLog) = Reconnects
       /\ ( Len(fails) >= 1 /\ fails[1] = "connect"
            /\ \A i \in 2..Len(fails) : fails[i] \in {"subscribe", "receive"} )
          => Reconnects = (Len(fails) - 1) + 1
  /\ upc = "failed" => attempts = Len(fails) /\ Len(sleepLog) = Len(fails) - 1
  /\ upc = "sleeping" => attempts = Len(fails) /\ Len(sleepLog) = Len(fails)

\* C7 witness: a connect failure, then a subscribe and a receive failure,
\* and the third reconnect attempt is under way.
C7_Witness ==
  /\ Len(fails) = 3
  /\ fails[1] = "connect" /\ fails[2] = "subscribe" /\ fails[3] = "receive"
  /\ upc = "connecting"
  /\ Reconnects = 3
  /\ sleepLog = <<reconnectDelay, reconnectDelay, reconnectDelay>>

\* The handler positions at which the read loop of a connection is over.
LoopExited == {"exited", "removed", "closed"}
\* The handler positions at which the handler has removed its entry.
EntryRemoved == {"removed", "closed"}

\* C8 as claimed: a broadcast invoked after a client's read loop has
\* terminated neither collects that client nor starts a delivery to it.
C8_NoDeliveryAfterLoopExit ==
  \A b \in Bcasts : \A c \in Conns :
    bstart[b].hpc[c] \in LoopExited =>
      c \notin Elems(allClients[b]) /\ dtask[b][c] = "none"

\* C8 as amended: a broadcast invoked after a client's handler has run
\* ConnectedClients.Delete (the step that follows the read loop's exit)
\* neither collects that client nor starts a delivery to it, so it attempts
\* no write on the connection and logs no error for it.
C8_NoDeliveryAfterRemoval ==
  \A b \in Bcasts : \A c \in Conns :
    bstart[b].hpc[c] \in EntryRemoved =>
      c \notin Elems(allClients[b]) /\ dtask[b][c] = "none"

\* C8 witness: a broadcast invoked after a client was removed has collected
\* its clients and started its deliveries.
C8_Witness ==
  \E b \in Bcasts : \E c \in Conns :
    bstart[b].hpc[c] \in EntryRemoved /\ bpc[b] = "spawned"

\* C9: delivery leaves the registry unchanged. A step in which a broadcast
\* write or a pong write returns, successfully or not, changes no entry of
\* ConnectedClients; an entry becomes absent only in the step in which a
\* handler whose read loop exited runs Delete on its address, and an entry
\* becomes another client only in the step in which that client registers.
C9_RegistryFrame ==
  [][ /\ ( \/ \E b \in Bcasts : \E c \in Conns :
                dtask[b][c] = "write" /\ dtask'[b][c] \in {"ok", "fail"}
           \/ \E c \in Conns : pongWrite'[c] < pongWrite[c] )
         => registry' = registry
      /\ \A a \in Addrs :
           registry'[a] # registry[a] =>
             \/ /\ registry'[a] = None
                /\ \E c \in Conns :
                     addr[c] = a /\ hpc[c] = "exited" /\ hpc'[c] = "removed"
             \/ /\ registry'[a] # None
                /\ hpc[registry'[a]] = "new"
                /\ hpc'[registry'[a]] = "reading" ]_vars

\* C9 witness: a broadcast write and a pong write failed and their client
\* is still the registry's entry.
C9_Witness ==
  \E b \in Bcasts : \E c \in Conns :
    dtask[b][c] = "fail" /\ pongFail[c] > 0 /\ Registered(c)

\* The text of frame f contains the substring "ping".
HasPing(f) ==
  \E i \in 1..Len(f) :
    /\ i + 3 <= Len(f)
    /\ f[i] = "p" /\ f[i + 1] = "i" /\ f[i + 2] = "n" /\ f[i + 3] = "g"

\* The frames containing "ping" that connection c has read.
Pings(c) == Cardinality({i \in 1..Len(inbox[c]) : HasPing(inbox[c][i])})

\* Pong replies of client c not yet returned.
PongsPending(c) == pongWait[c] + pongWrite[c]

C10_PongState ==
  \A c \in Conns :
    /\ Pings(c) = PongsPending(c) + pongFail[c] + Cardinality(From(c, None))
    /\ \A i \in 1..Len(received[c]) :
         IF received[c][i].src = None
           THEN received[c][i].bytes = pongResponse
           ELSE /\ received[c][i].src \in Bcasts
                /\ received[c][i].bytes = Marshalled(received[c][i].src)

\* C10: ping/pong. Every frame containing "ping" read from a client starts
\* exactly one pong reply for that client, which writes the pong literal on
\* that client's connection once unless its write fails, and which returns
\* eventually unless the client's peer stalls (again and again there is a
\* moment at which no pong is left but those of stalled clients); reading a
\* frame without
\* "ping" changes nothing of the server's state; and everything else
\* a client receives is a broadcast's message, byte for byte.
C10_PingPong ==
  /\ []C10_PongState
  /\ [][ \A c \in Conns :
           (inbox'[c] # inbox[c] /\ ~HasPing(inbox'[c][Len(inbox'[c])]))
             => UNCHANGED <<regV, connV, mutex, stalled, pongV, bcastV, dtask,
                            received>> ]_vars
  /\ []<>(\A c \in Conns : PongsPending(c) > 0 => stalled[c])

\* C10 witness: a client that sent a frame with "ping" inside other text
\* has received the pong and a broadcast's message.
C10_Witness ==
  \E c \in Conns : \E b \in Bcasts :
    /\ \E i \in 1..Len(inbox[c]) : inbox[c][i] = <<"x", "p", "i", "n", "g", "x">>
    /\ From(c, None) # {}
    /\ From(c, b) # {}

\* The phases in which the connector is streaming.
Streaming == {"receiving", "processing"}

\* C11: per-line errors do not abort the stream. A step in which processLog
\* returns an error only removes that line from the lines to process: the
\* connector stays in the streaming phase with the same socket, no failure
\* recorded, and goes on with the next line, or with sub.Recv after the
\* last one; the streaming phase is left only by an error of sub.Recv;
\* every line of every message received gets processed (again and again
\* no line is left), and the next message can then be received.
C11_LineErrorsDoNotAbort ==
  /\ [][ lineErrors' # lineErrors =>
           /\ upc = "processing" /\ lineErrors' = lineErrors + 1
           /\ lines' = Tail(lines)
           /\ upc' = (IF lines' = <<>> THEN "receiving" ELSE "processing")
           /\ UNCHANGED <<fails, nOpen, attempts, sleepLog, nMsgs>> ]_vars
  /\ [][ (upc \in Streaming /\ upc' \notin Streaming) =>
           /\ upc = "receiving" /\ upc' = "failed"
           /\ fails' = Append(fails, "receive") ]_vars
  /\ [](lines # <<>> <=> upc = "processing")
  /\ []((upc = "receiving" /\ nMsgs < MaxMsgs) =>
          ENABLED (RecvMsg(<<>>) /\ UNCHANGED srvV))
  /\ []<>(lines = <<>>)

\* C11 witness: two messages of two lines each; two of the lines made
\* processLog return an error, and the last line of the second message
\* has been processed after them: it started the second broadcast.
C11_Witness ==
  /\ nMsgs = 2 /\ lineErrors = 2
  /\ lines = <<>> /\ upc = "receiving"
  /\ lastLine.sent = 2 /\ lastLine.err = ""

\* What processLog decodes from line l: the base64 decoding of the data
\* extractProgramData returns, when there is one.
DecodedOf(l) ==
  LET d == extractProgramData(Text(l)) IN
    IF d.ok THEN DecodeString(d.data) ELSE [ok |-> FALSE, bytes |-> <<>>]

\* The bytes b begin with the 8 bytes of creationDiscriminator.
StartsWithDiscriminator(b) ==
  /\ Len(b) >= 8
  /\ \A i \in 1..8 : b[i] = creationDiscriminator[i]

\* The broadcasts started so far.
Started == {b \in Bcasts : bpc[b] # "idle"}

\* C12: discriminator gate. processLog has started a broadcast for the line
\* it processed only if the line's decoded payload begins with the 8 bytes
\* of creationDiscriminator; for a payload whose first 8 bytes differ from
\* it, or that is shorter than 8 bytes, no broadcast was started at all.
C12_DiscriminatorGate ==
  LET d == DecodedOf(lastLine.line) IN
    /\ lastLine.sent # 0 => d.ok /\ StartsWithDiscriminator(d.bytes)
    /\ (d.ok /\ ~StartsWithDiscriminator(d.bytes)) =>
         lastLine.sent = 0 /\ nb = 0 /\ Started = {}
    /\ Started = 1..nb
    /\ nb = (IF lastLine.sent # 0 THEN 1 ELSE 0)

\* C12 witness: a line whose payload is a whole record after 8 bytes that
\* differ from the discriminator in the last two has been processed, and
\* no broadcast was started.
C12_Witness ==
  /\ lastLine.line = Line("marked", "baddisc", "none")
  /\ lines = <<>> /\ upc = "receiving"
  /\ Len(DecodedOf(lastLine.line).bytes) > 8
  /\ nb = 0

\* Line l contains the marker.
Marked(l) == Contains(Text(l), logIdentifier)

\* The four malformed-line conditions, for a line with the marker: no
\* prefix; data that is not base64; decoded bytes that do not begin with
\* the discriminator; a record after the discriminator that does not
\* deserialize.
MissingPrefix(l) == Marked(l) /\ ~Contains(Text(l), programDataPrefix)
BadBase64(l) ==
  Marked(l) /\ extractProgramData(Text(l)).ok /\ ~DecodedOf(l).ok
Mismatch(l) ==
  Marked(l) /\ DecodedOf(l).ok /\ ~StartsWithDiscriminator(DecodedOf(l).bytes)
DeserializationFailure(l) ==
  /\ Marked(l) /\ DecodedOf(l).ok
  /\ StartsWithDiscriminator(DecodedOf(l).bytes)
  /\ ~DecodeBorsh(Drop(DecodedOf(l).bytes, 8)).ok

\* The error of the line stayed with the line: the connector is still
\* streaming on the same socket and no failure is recorded.
NotPropagated == upc \in Streaming /\ fails = <<>> /\ nOpen = 1

\* C13 as claimed: each of the four malformed-line conditions discards the
\* line with no event, records an error for it, and the error goes no
\* further than the line.
C13_MalformedLogged ==
  LET l == lastLine.line IN
    (MissingPrefix(l) \/ BadBase64(l) \/ Mismatch(l)
       \/ DeserializationFailure(l)) =>
      /\ lastLine.sent = 0 /\ nb = 0
      /\ lastLine.err # "" /\ lineErrors = 1
      /\ NotPropagated

\* C13 as amended: a missing prefix, data that is not base64 and a
\* deserialization failure each discard the line with no event and with
\* the error of that step recorded; a discriminator mismatch discards the
\* line with no event and no error; in all four cases nothing goes further
\* than the line.
C13_MalformedHandled ==
  LET l == lastLine.line IN
    /\ MissingPrefix(l) => lastLine.err = "failed to extract program data"
    /\ BadBase64(l) => lastLine.err = "failed to decode base64 data"
    /\ DeserializationFailure(l) => lastLine.err = "failed to decode event"
    /\ Mismatch(l) => lastLine.err = ""
    /\ (MissingPrefix(l) \/ BadBase64(l) \/ Mismatch(l)
          \/ DeserializationFailure(l)) =>
         /\ lastLine.sent = 0 /\ nb = 0
         /\ lineErrors = (IF lastLine.err # "" THEN 1 ELSE 0)
         /\ NotPropagated

\* C13 witness: a line whose record is cut short after the discriminator
\* has been processed: the error is recorded, no broadcast was started.
C13_Witness ==
  /\ lastLine.line = Line("plain", "truncated", "none")
  /\ DeserializationFailure(lastLine.line)
  /\ lastLine.err = "failed to decode event" /\ lineErrors = 1
  /\ nb = 0 /\ upc = "receiving"

\* C14: log filter classification. A line without the marker produces no
\* event and no error, whatever else it contains; a line with the marker
\* and without the prefix produces no event and an error is recorded.
C14_LogFilter ==
  LET l == lastLine.line IN
    /\ ~Marked(l) =>
         lastLine.sent = 0 /\ nb = 0 /\ lastLine.err = "" /\ lineErrors = 0
    /\ (Marked(l) /\ ~Contains(Text(l), programDataPrefix)) =>
         lastLine.sent = 0 /\ nb = 0 /\ lastLine.err # "" /\ lineErrors = 1

\* C14 witness: a line without the marker that carries well-formed base64
\* after the prefix has been processed: no event, no error.
C14_Witness ==
  /\ lastLine.line = Line("log", "other", "none")
  /\ ~Marked(lastLine.line)
  /\ DecodedOf(lastLine.line).ok
  /\ lines = <<>> /\ upc = "receiving"
  /\ nb = 0 /\ lineErrors = 0

\* C15: payload extraction. For a line that contains the prefix, the data
\* extractProgramData returns is the whole remainder of the line after the
\* first occurrence of the prefix, later occurrences included.
C15_PayloadIsRemainder ==
  LET t == Text(lastLine.line)
      i == Index(t, programDataPrefix)
  IN i # 0 =>
       /\ extractProgramData(t).ok
       /\ extractProgramData(t).data = Drop(t, i - 1 + Len(programDataPrefix))

\* The wire event of event k: the encoded name, symbol and uri, and the
\* base58 text of the encoded key.
WireEvent(k) ==
  [Name |-> Events[k].Name, Symbol |-> Events[k].Symbol,
   Uri |-> Events[k].Uri, Mint |-> Base58(Events[k].Mint)]

\* Line l carries the marker and one whole, well laid-out event after the
\* prefix.
ValidEventLine(l) ==
  Marked(l) /\ l.data \in EventKinds /\ l.tail \in {"none", "newline"}

\* All the deliveries of broadcast b have returned.
Returned(b) ==
  bpc[b] = "spawned" /\ \A c \in Conns : dtask[b][c] \notin {"wait", "write"}

\* C16 as claimed: the broadcast processLog started for a valid line carries
\* the wire event of the line, and once its deliveries have returned every
\* client registered when it was started has received the message.
C16_EventReachesAll ==
  /\ (lastLine.sent # 0 /\ ValidEventLine(lastLine.line)) =>
       bmsg[lastLine.sent] = Marshal(WireEvent(lastLine.line.data))
  /\ \A b \in Bcasts : Returned(b) =>
       \A c \in RegAt(b) : From(c, b) # {}

\* What {"name":"Foo","symbol":"FOO","uri":"ipfs://x",
\* "mint":"11111111111111111111111111111112"} is in bytes.
FooMessage ==
  <<123, 34, 110, 97, 109, 101, 34, 58, 34, 70, 111, 111, 34, 44, 34,
    115, 121, 109, 98, 111, 108, 34, 58, 34, 70, 79, 79, 34, 44, 34, 117,
    114, 105, 34, 58, 34, 105, 112, 102, 115, 58, 47, 47, 120, 34, 44,
    34, 109, 105, 110, 116, 34, 58, 34, 49, 49, 49, 49, 49, 49, 49, 49,
    49, 49, 49, 49, 49, 49, 49, 49, 49, 49, 49, 49, 49, 49, 49, 49, 49,
    49, 49, 49, 49, 49, 49, 50, 34, 125>>

\* C16 as amended: processLog on a valid line starts exactly one broadcast,
\* with the serialized wire event of the line (name, symbol and uri as
\* encoded, mint the base58 text of the encoded key), and starts none on
\* any other line; when no client registers or is removed while the
\* broadcast collects its clients, it starts one delivery for each client
\* registered when it was started and for no other, and each delivery that
\* returned without error has written exactly that message once on its
\* client's connection; the deliveries eventually all return, but for
\* those whose client's peer is stalled.
C16_EndToEnd ==
  /\ [][ (lines # <<>> /\ lines' = Tail(lines)) =>
           IF ValidEventLine(Head(lines))
             THEN /\ nb' = nb + 1
                  /\ bmsg' = [bmsg EXCEPT ![nb + 1] =
                                Marshal(WireEvent(Head(lines).data))]
                  /\ bpc' = [bpc EXCEPT ![nb + 1] = "ranging"]
                  /\ bstart'[nb + 1].registry = registry
                  /\ lastLine'.sent = nb + 1 /\ lastLine'.err = ""
             ELSE UNCHANGED <<nb, bmsg, bpc, bstart>> /\ lastLine'.sent = 0
        ]_vars
  /\ [](\A b \in Bcasts : Quiet(b) =>
          /\ Elems(allClients[b]) = RegAt(b)
          /\ Len(allClients[b]) = Cardinality(RegAt(b))
          /\ \A c \in Conns :
               /\ c \notin RegAt(b) => dtask[b][c] = "none" /\ From(c, b) = {}
               /\ c \in RegAt(b) =>
                    /\ dtask[b][c] # "none"
                    /\ Cardinality(From(c, b))
                         = (IF dtask[b][c] = "ok" THEN 1 ELSE 0)
               /\ \A i \in From(c, b) : received[c][i].bytes = bmsg[b])
  /\ []<>C4_FanOutDone

\* C16 witness: with two clients registered, the line carrying the event
\* "Foo" was processed, and both clients have received its message.
C16_Witness ==
  \E b \in Bcasts :
    /\ lastLine.line = Line("plain", "event1", "none") /\ lastLine.sent = b
    /\ Quiet(b) /\ Cardinality(RegAt(b)) = 2
    /\ \A c \in RegAt(b) :
         received[c] = <<[src |-> b, bytes |-> FooMessage]>>

\* C17: fire-and-forget hand-off. Whatever the state of the deliveries
\* (collecting, waiting for a client's lock, inside a write that never
\* returns), the connector can process the next log line, receive the next
\* message, see sub.Recv fail, and go through the wait to the next connect
\* attempt; and with nothing assumed of the delivery goroutines it does:
\* again and again no line is left to process, and again and again it is
\* connecting or connected.
C17_FireAndForget ==
  /\ [](upc = "processing" => ENABLED ProcessLine)
  /\ []((upc = "receiving" /\ nev < MaxEvents /\ nMsgs < MaxMsgs) =>
          ENABLED (RecvMsg(<<>>) /\ UpstreamEvent))
  /\ []((upc = "receiving" /\ nev < MaxEvents /\ Len(fails) < MaxFailures) =>
          ENABLED (RecvFail /\ UpstreamEvent))
  /\ [](upc \in {"failed", "sleeping", "loop"} =>
          ENABLED (ConnectorStep /\ UNCHANGED srvV))
  /\ []<>(lines = <<>>)
  /\ []<>(upc \notin {"failed", "sleeping", "loop"})

\* C17 witness: the write of the first event to a client never returns, the
\* delivery of the second event waits for that client's lock, and the
\* connector, after a receive error and the wait, is connecting again.
C17_Witness ==
  \E c \in Conns :
    /\ nb = 2
    /\ dtask[1][c] = "write" /\ stalled[c] /\ hpc[c] = "reading"
    /\ dtask[2][c] = "wait" /\ mutex[c]
    /\ fails = <<"receive">> /\ attempts = 2 /\ upc = "connecting"

\* C18: the read loop is never blocked by writes. Whatever the pong replies
\* of a client do (waiting for the client's lock, inside a write that does
\* not return), its read loop can read the next frame, whichever it is,
\* and can get a read error; after a read error the handler removes the
\* entry of its address and returns (again and again no handler is left
\* between the read error and its return), and from the removal on the
\* client is not the registry's entry.
C18_ReadLoopNotBlocked ==
  /\ [](\A c \in Conns : \A f \in Frames :
          (hpc[c] = "reading" /\ nev < MaxEvents /\ nframes < MaxFrames) =>
            ENABLED (ReadFrame(c, f) /\ UNCHANGED upV))
  /\ [](\A c \in Conns :
          (hpc[c] = "reading" /\ nev < MaxEvents) =>
            ENABLED (ReadError(c) /\ UNCHANGED upV))
  /\ [](\A c \in Conns :
          /\ hpc[c] = "exited" => ENABLED (Delete(c) /\ UNCHANGED upV)
          /\ hpc[c] \in EntryRemoved => ~Registered(c))
  /\ []<>(\A c \in Conns : hpc[c] \notin {"exited", "removed"})

\* C18 witness: the pong reply to a client's first frame is inside a write
\* that does not return, the pong reply to its second frame waits for the
\* lock, and the read loop is reading.
C18_Witness ==
  \E c \in Conns :
    /\ Len(inbox[c]) = 2
    /\ pongWrite[c] = 1 /\ stalled[c] /\ pongWait[c] = 1
    /\ hpc[c] = "reading"

\* No client occurs twice in slice s.
NoDuplicates(s) == Len(s) = Cardinality(Elems(s))

\* C19: snapshot membership. A broadcast collects a client only from the
\* registry as it is when Range visits the client's key, no client twice,
\* and the slice is fixed once Range has returned; it starts deliveries for
\* the collected clients only, and writes at most once on a connection; a
\* connection not yet registered when Range returned is in no slice and
\* gets nothing of that broadcast.
C19_SnapshotMembership ==
  /\ [][ \A b \in Bcasts : allClients'[b] # allClients[b] =>
           /\ bpc[b] = "ranging"
           /\ \E a \in Addrs :
                /\ registry[a] # None
                /\ allClients'[b] = Append(allClients[b], registry[a]) ]_vars
  /\ [](\A b \in Bcasts :
          /\ NoDuplicates(allClients[b])
          /\ \A c \in Conns :
               /\ Cardinality(From(c, b)) <= 1
               /\ c \notin Elems(allClients[b]) =>
                    dtask[b][c] = "none" /\ From(c, b) = {}
               /\ hpc[c] = "new" => c \notin Elems(allClients[b]))
  /\ [][ \A b \in Bcasts : \A c \in Conns :
           (bpc[b] = "spawned" /\ c \notin Elems(allClients[b])) =>
             (c \notin Elems(allClients'[b]) /\ dtask'[b][c] = "none") ]_vars

\* C19 witness: a client collected by a broadcast has since been removed
\* from the registry and its connection closed, and the broadcast's
\* delivery to it has taken the lock and is writing.
C19_Witness ==
  \E b \in Bcasts : \E c \in Conns :
    /\ c \in Elems(allClients[b])
    /\ hpc[c] = "closed" /\ ~Registered(c)
    /\ dtask[b][c] = "write"

\* The activities waiting for the lock of client c.
Waiters(c) ==
  Cardinality({b \in Bcasts : dtask[b][c] = "wait"}) + pongWait[c]

\* C20: lock release and deadlock freedom. A client's lock is held exactly
\* while one activity is inside its write on that client; the step in
\* which a write returns, with or without an error, leaves the lock free;
\* a waiting delivery or pong can take the lock whenever no write is under
\* way on its client, whatever became of earlier writes; and the waiting
\* never lasts (again and again nothing waits or writes but on clients
\* whose peer is stalled).
C20_LockRelease ==
  /\ [](\A c \in Conns : mutex[c] <=> Writers(c) = 1)
  /\ [][ \A c \in Conns :
           ( \/ \E b \in Bcasts :
                  dtask[b][c] = "write" /\ dtask'[b][c] \in {"ok", "fail"}
             \/ pongWrite'[c] < pongWrite[c] )
           => ~mutex'[c] ]_vars
  /\ [](\A c \in Conns : Writers(c) = 0 =>
          /\ \A b \in Bcasts :
               dtask[b][c] = "wait" => ENABLED (Lock(b, c) /\ UNCHANGED upV)
          /\ pongWait[c] > 0 => ENABLED (PongLock(c) /\ UNCHANGED upV))
  /\ []<>(\A c \in Conns : (Waiters(c) + Writers(c) > 0) => stalled[c])

\* C20 witness: a broadcast's write on a client failed, and the delivery of
\* another broadcast has taken the client's lock since and is writing.
C20_Witness ==
  \E c \in Conns : \E b1 \in Bcasts : \E b2 \in Bcasts :
    /\ dtask[b1][c] = "fail"
    /\ dtask[b2][c] = "write" /\ mutex[c]
    /\ hpc[c] = "reading"

\* The phases in which connectAndListen holds a socket: after ws.Connect
\* returned it, until connectAndListen returns.
OnSocket == {"subscribing", "receiving", "processing"}

\* A step opens a socket only as the success of the connect attempt of the
\* current cycle; subscribing is entered only by that step; a failure on a
\* socket leaves none open.
SocketSteps ==
  /\ (nOpen' > nOpen) =>
       ( /\ upc = "connecting" /\ upc' = "subscribing"
         /\ nOpen = 0 /\ nOpen' = 1
         /\ attempts' = attempts /\ fails' = fails )
  /\ (upc' = "subscribing" /\ upc # "subscribing") =>
       (upc = "connecting" /\ nOpen' = nOpen + 1)
  /\ (upc \in {"subscribing", "receiving"} /\ upc' = "failed") =>
       (nOpen' = 0)

\* C21: single upstream connection. At most one upstream socket is open; one
\* is open exactly while the connector subscribes or streams, so the socket
\* of a failed cycle is closed when the failure reaches listenToNewPairs,
\* before the wait and before the next connect attempt; a socket is opened
\* only by the success of the connect attempt of the current cycle, and
\* subscribing is entered only by that step.
C21_SingleUpstreamSocket ==
  /\ [](nOpen \in {0, 1})
  /\ [](upc \in OnSocket <=> nOpen = 1)
  /\ [][SocketSteps]_vars

\* C21 witness: a subscribe failure and a receive error have each closed
\* their socket, and the third cycle streams on the one socket open.
C21_Witness ==
  /\ fails = <<"subscribe", "receive">>
  /\ Len(sleepLog) = 2
  /\ attempts = 3
  /\ upc = "receiving"
  /\ nOpen = 1

====
